---------------------------- MODULE Spec2Model ----------------------------
(***************************************************************************)
(* A model of obsidian2cosma.py: the note transformation pipeline that     *)
(* gives every Markdown note an id and a title (metadata_init), rewrites   *)
(* wiki links to identifier form (replace_wiki_links) and recodes typed    *)
(* links (transform_typed_links).                                          *)
(*                                                                         *)
(* A text is a sequence of one-character strings; every regular expression *)
(* of the program is an operator over such sequences that follows Python's *)
(* leftmost, backtracking matching.                                        *)
(***************************************************************************)
EXTENDS Naturals, Sequences, FiniteSets

VARIABLES
  files,      \* files[i]: the stored text of the i-th Markdown file of the output folder
  ctime,      \* ctime[i]: creation time of file i, as the number YYYYMMDDHHMMSS
  args,       \* the parsed command line: creationdate, zettlr, typedlinks, semanticsection
  currentId,  \* the global counter of line 71
  title2id,   \* the dictionary of metadata_init, in insertion order: <<[title, id], ...>>
  csv,        \* the rows written to _title2id.csv
  pc,         \* where the run is
  idx,        \* the file the running loop is at
  raised,     \* an exception has escaped
  count,      \* the global count of replace_wiki_links: links replaced in the file
  seed,       \* history: the value currentId had when the run started
  assigned,   \* history: the values create_id has returned in this run
  run,        \* history: 1 in the first run over the files, 2 in the second
  orig,       \* history: the files as they were before the first operation
  prev,       \* history: the files as they were before the latest operation
  data,       \* the decoded header reformat_yaml_front_matter_in_file normalizes
  new_data,   \* the normalized header it builds (line 178)
  log         \* history: the calls of this run on a file, in order: [op, file, written]

vars == <<files, ctime, args, currentId, title2id, csv, pc, idx, raised, count,
          seed, assigned, run, orig, prev, data, new_data, log>>

---------------------------------------------------------------------------
(* Bounds of the model.                                                    *)

\* the number of Markdown files of a metadata_init run
MaxFiles == 2
\* the number of segments (references, text) a body is made of
MaxSegs == 2

---------------------------------------------------------------------------
(* Texts.                                                                  *)

Min(S) == CHOOSE x \in S : \A y \in S : x <= y
Max(S) == CHOOSE x \in S : \A y \in S : x >= y

\* s[i..] and s[..i]
From(s, i) == SubSeq(s, i, Len(s))
Upto(s, i) == SubSeq(s, 1, i)

\* p occurs in s at position i
At(s, i, p) == /\ i >= 1
               /\ i + Len(p) - 1 <= Len(s)
               /\ SubSeq(s, i, i + Len(p) - 1) = p

\* str.find from position i on: the first position of p, 0 when there is none
Find(s, p, i) ==
  LET I == {j \in i..Len(s) : At(s, j, p)}
  IN  IF I = {} THEN 0 ELSE Min(I)

Contains(s, p) == \E j \in 1..(Len(s) + 1) : At(s, j, p)

\* Python's \s and str.strip's white space
IsSpace(c) == c \in {" ", "\n", "\t", "\r"}

RECURSIVE LStrip(_)
LStrip(s) == IF s # <<>> /\ IsSpace(Head(s)) THEN LStrip(Tail(s)) ELSE s

RECURSIVE RStrip(_)
RStrip(s) == IF s # <<>> /\ IsSpace(s[Len(s)]) THEN RStrip(Upto(s, Len(s) - 1)) ELSE s

\* str.strip()
Strip(s) == LStrip(RStrip(s))

\* str.replace(old, new, 1)
ReplaceFirst(s, old, new) ==
  LET i == Find(s, old, 1)
  IN  IF i = 0 THEN s
      ELSE Upto(s, i - 1) \o new \o From(s, i + Len(old))

\* str.replace(old, new): every occurrence, left to right, not overlapping
RECURSIVE ReplaceAll(_, _, _)
ReplaceAll(s, old, new) ==
  LET i == Find(s, old, 1)
  IN  IF i = 0 \/ old = <<>> THEN s
      ELSE Upto(s, i - 1) \o new \o ReplaceAll(From(s, i + Len(old)), old, new)

\* the number of "|" of a text: str.split("|") gives one part more
RECURSIVE CountPipes(_)
CountPipes(s) ==
  IF s = <<>> THEN 0
  ELSE (IF Head(s) = "|" THEN 1 ELSE 0) + CountPipes(Tail(s))

\* the text has no line break: what "." of a pattern without DOTALL matches
NoNewline(s) == \A k \in 1..Len(s) : s[k] # "\n"

Dashes == <<"-", "-", "-">>
NL == <<"\n">>

---------------------------------------------------------------------------
(* Values of the YAML header: None, an integer or a string.                *)

None == [kind |-> "none", n |-> 0, s |-> <<>>]
Int(n) == [kind |-> "int", n |-> n, s |-> <<>>]
Str(s) == [kind |-> "str", n |-> 0, s |-> s]

Digits == <<"0", "1", "2", "3", "4", "5", "6", "7", "8", "9">>
IsDigit(c) == \E d \in 1..10 : Digits[d] = c
DigitValue(c) == (CHOOSE d \in 1..10 : Digits[d] = c) - 1

\* str(n) of an integer n >= 0
RECURSIVE Decimal(_)
Decimal(n) ==
  IF n < 10 THEN <<Digits[n + 1]>>
  ELSE Decimal(n \div 10) \o <<Digits[(n % 10) + 1]>>

\* int(s) of a text of digits
RECURSIVE ParseInt(_)
ParseInt(s) ==
  IF s = <<>> THEN 0
  ELSE 10 * ParseInt(Upto(s, Len(s) - 1)) + DigitValue(s[Len(s)])

\* "{}".format(v)
Format(v) ==
  CASE v.kind = "int" -> Decimal(v.n)
    [] v.kind = "str" -> v.s
    [] OTHER -> <<"N", "o", "n", "e">>

\* The scalar a plain YAML value text resolves to (yaml.safe_load): nothing,
\* "~" and "null" are None, decimal digits without a leading zero are an
\* integer, any other text is a string.
ResolveScalar(t) ==
  LET v == Strip(t)
  IN  IF v = <<>> \/ v = <<"~">> \/ v = <<"n", "u", "l", "l">> THEN None
      ELSE IF (\A k \in 1..Len(v) : IsDigit(v[k])) /\ (Len(v) = 1 \/ v[1] # "0")
           THEN Int(ParseInt(v))
           ELSE Str(v)

\* str.split("\n")
RECURSIVE SplitLines(_)
SplitLines(s) ==
  LET i == Find(s, NL, 1)
  IN  IF i = 0 THEN <<s>>
      ELSE <<Upto(s, i - 1)>> \o SplitLines(From(s, i + 1))

\* The position of the ":" that ends the key of a "key: value" line: the
\* first ":" followed by a blank or by the end of the line (0: none).
KeyEnd(line) ==
  LET I == {j \in 1..Len(line) :
              line[j] = ":" /\ (j = Len(line) \/ IsSpace(line[j + 1]))}
  IN  IF I = {} THEN 0 ELSE Min(I)

\* dict[key] = val
DictSet(d, key, val) ==
  [k \in (DOMAIN d) \cup {key} |-> IF k = key THEN val ELSE d[k]]

\* dict.get(key)
DictGet(d, key) == IF key \in DOMAIN d THEN d[key] ELSE None

\* yaml.safe_load of a block mapping of plain scalars, one "key: value" per
\* line: a later line of the same key replaces the earlier one.
RECURSIVE LoadLines(_, _)
LoadLines(lines, d) ==
  IF lines = <<>> THEN d
  ELSE LET line == Head(lines)
           c == KeyEnd(line)
       IN  IF c = 0 THEN LoadLines(Tail(lines), d)
           ELSE LoadLines(Tail(lines),
                          DictSet(d, Strip(Upto(line, c - 1)),
                                  ResolveScalar(From(line, c + 1))))

SafeLoad(text) == LoadLines(SplitLines(text), <<>>)

---------------------------------------------------------------------------
(* parse_yaml_front_matter, lines 115-128.                                 *)

\* The positions at which the "\n" after "^---\s*" can match: white space
\* only lies between the three hyphens and it.
OpeningEnds(content) ==
  {e \in 4..Len(content) :
     /\ At(content, 1, Dashes)
     /\ content[e] = "\n"
     /\ \A j \in 4..(e - 1) : IsSpace(content[j])}

\* re.match(r"^---\s*\n(.*?)\n---\s*\n?(.*)", content, re.DOTALL): the
\* greedy \s* gives way until a closing "\n---" follows; the lazy group ends
\* at the first one.  front and body are groups 1 and 2.
FrontMatterRegex(content) ==
  LET E == {e \in OpeningEnds(content) : Find(content, NL \o Dashes, e + 1) # 0}
  IN  IF E = {} THEN [matched |-> FALSE, front |-> <<>>, body |-> content]
      ELSE LET e == Max(E)
               p == Find(content, NL \o Dashes, e + 1)
           IN  [matched |-> TRUE,
                front   |-> SubSeq(content, e + 1, p - 1),
                body    |-> LStrip(From(content, p + 4))]

\* parse_yaml_front_matter(content): the header as a dictionary, and the body
parse_yaml_front_matter(content) ==
  LET m == FrontMatterRegex(content)
  IN  IF ~m.matched THEN [data |-> <<>>, body |-> content]
      ELSE [data |-> SafeLoad(m.front), body |-> m.body]

---------------------------------------------------------------------------
(* The header normalizer, lines 130-163 and 178-181.                       *)

\* The values of a decoded header: None, an integer, a str, a _QuotedStr (a
\* str that is dumped in double quotes), a list, and a dict as its keys and
\* its values in insertion order.
PyNone == [kind |-> "none", n |-> 0, s |-> <<>>, keys |-> <<>>, items |-> <<>>]
PyInt(n) == [kind |-> "int", n |-> n, s |-> <<>>, keys |-> <<>>, items |-> <<>>]
PyStr(s) == [kind |-> "str", n |-> 0, s |-> s, keys |-> <<>>, items |-> <<>>]
_QuotedStr(s) == [kind |-> "_QuotedStr", n |-> 0, s |-> s, keys |-> <<>>, items |-> <<>>]
PyList(items) == [kind |-> "list", n |-> 0, s |-> <<>>, keys |-> <<>>, items |-> items]
PyDict(keys, items) == [kind |-> "dict", n |-> 0, s |-> <<>>, keys |-> keys, items |-> items]

\* {}
EmptyDict == PyDict(<<>>, <<>>)

\* isinstance(val, str): a _QuotedStr is a str
IsStr(val) == val.kind \in {"str", "_QuotedStr"}

\* str(k) of a key of a header
StrOf(k) ==
  CASE IsStr(k) -> k.s
    [] k.kind = "int" -> Decimal(k.n)
    [] OTHER -> <<"N", "o", "n", "e">>

\* str.lower(), on the letters of the model
LowerChar(c) ==
  CASE c = "A" -> "a"
    [] c = "B" -> "b"
    [] c = "C" -> "c"
    [] OTHER -> c
Lower(s) == [i \in 1..Len(s) |-> LowerChar(s[i])]

\* the normalizer with a replace that stops after the first blank
_normalize_key_first(key) == ReplaceFirst(Lower(Strip(key)), <<" ">>, <<"_">>)

\* _normalize_key(key), line 132: key.strip().lower().replace(" ", "_")
_normalize_key(key) == ReplaceAll(Lower(Strip(key)), <<" ">>, <<"_">>)

\* d[key] = val of a dict whose keys are str: a new key goes last, a known
\* key keeps its place and takes the new value
PutItem(d, key, val) ==
  LET I == {k \in 1..Len(d.keys) : d.keys[k] = key}
  IN  IF I = {} THEN PyDict(Append(d.keys, key), Append(d.items, val))
      ELSE PyDict(d.keys, [d.items EXCEPT ![Min(I)] = val])

\* _normalize_value(val), lines 145-163.  NormalizeItems is the loop of a
\* dict (line 162, and lines 178-181 for the header itself) from its k-th
\* item on, into the dict d.
RECURSIVE _normalize_value(_), NormalizeItems(_, _, _)
_normalize_value(val) ==
  CASE val.kind = "none" -> PyList(<<>>)
    [] IsStr(val) -> IF Strip(val.s) = <<>> THEN PyList(<<>>)
                     ELSE _QuotedStr(Strip(val.s))
    [] val.kind = "list" ->
         PyList([i \in 1..Len(val.items) |-> _normalize_value(val.items[i])])
    [] val.kind = "dict" -> NormalizeItems(val, 1, EmptyDict)
    [] OTHER -> val

NormalizeItems(val, k, d) ==
  IF k > Len(val.keys) THEN d
  ELSE NormalizeItems(val, k + 1,
         PutItem(d, PyStr(_normalize_key(StrOf(val.keys[k]))),
                 _normalize_value(val.items[k])))

---------------------------------------------------------------------------
(* create_id, lines 101-113, and metadata_init, lines 300-364.             *)

\* history: a call of op on file, and whether it has written the file
Called(op, file, written) == [op |-> op, file |-> file, written |-> written]

\* Path(file).stem of the files of the output folder
Stems == << <<"A">>, <<"B">>, <<"C">>, <<"D">> >>
Stem(file) == Stems[file]

IdKey == <<"i", "d">>
TitleKey == <<"t", "i", "t", "l", "e">>

\* the id create_id returns and the value it leaves in currentId: the file's
\* creation date as text under --creationdate, else the incremented counter
create_id_stale(file) ==
  IF args.creationdate
  THEN [id |-> Str(Decimal(ctime[file])), currentId |-> currentId]
  ELSE [id |-> Int(currentId + 1), currentId |-> currentId]

create_id(file) ==
  IF args.creationdate
  THEN [id |-> Str(Decimal(ctime[file])), currentId |-> currentId]
  ELSE [id |-> Int(currentId + 1), currentId |-> currentId + 1]

\* re.match(r"^---\n(.*?)\n---(.*)", content, re.DOTALL) of lines 323 and 343
HasFrontMatter(content) ==
  /\ At(content, 1, Dashes \o NL)
  /\ Find(content, NL \o Dashes, 5) # 0

\* Lines 322-328 and 342-348: the field goes right after the first "---" of
\* a text with front matter, else in a new front matter before the text.
InsertField(content, key, value) ==
  LET field == key \o <<":", " ">> \o Format(value)
  IN  IF HasFrontMatter(content)
      THEN ReplaceFirst(content, Dashes, Dashes \o NL \o field)
      ELSE Dashes \o NL \o field \o NL \o Dashes \o NL \o content

\* the position of a title in the dictionary, 0 when it is no key
KeyIndex(d, title) ==
  LET I == {k \in 1..Len(d) : d[k].title = title}
  IN  IF I = {} THEN 0 ELSE Min(I)

\* title2id[title] = id: a new key goes last, a known key keeps its place
SetItem(d, title, id) ==
  IF KeyIndex(d, title) = 0
  THEN Append(d, [title |-> title, id |-> id])
  ELSE [d EXCEPT ![KeyIndex(d, title)] = [title |-> title, id |-> id]]

\* One turn of the loop of lines 307-356, on file idx.
MetadataInitFile ==
  /\ pc = "metadata_init"
  /\ idx <= Len(files)
  /\ LET content      == files[idx]
         front_matter == parse_yaml_front_matter(content).data
         id0          == DictGet(front_matter, IdKey)
         title0       == DictGet(front_matter, TitleKey)
         created      == create_id(idx)
         id           == IF id0 = None THEN created.id ELSE id0
         withId       == IF id0 = None THEN InsertField(content, IdKey, id)
                         ELSE content
         title        == IF title0 = None THEN Str(Stem(idx)) ELSE title0
         withTitle    == IF title0 = None THEN InsertField(withId, TitleKey, title)
                         ELSE withId
     IN  /\ files' = [files EXCEPT ![idx] = withTitle]
         /\ currentId' = IF id0 = None THEN created.currentId ELSE currentId
         /\ assigned' = IF id0 = None THEN Append(assigned, created.id) ELSE assigned
         /\ title2id' = SetItem(title2id, title, id)
  /\ idx' = idx + 1
  /\ log' = Append(log, Called("metadata_init", idx, TRUE))
  /\ UNCHANGED <<data, new_data, ctime, args, csv, pc, raised, count, seed, run, orig, prev>>

\* metadata_init that returns after its first file
MetadataInitReturnEarly ==
  /\ pc = "metadata_init"
  /\ idx > 1
  /\ csv' = title2id
  /\ pc' = "metadata_done"
  /\ UNCHANGED <<data, new_data, log, files, ctime, args, currentId, title2id, idx,
                 raised, count, seed, assigned, run, orig, prev>>

\* Lines 357-364: the dictionary is written to _title2id.csv and returned.
MetadataInitReturn ==
  /\ pc = "metadata_init"
  /\ idx > Len(files)
  /\ csv' = title2id
  /\ pc' = "metadata_done"
  /\ UNCHANGED <<data, new_data, log, files, ctime, args, currentId, title2id, idx, raised, count,
                 seed, assigned, run, orig, prev>>

\* the values line 71 can give currentId when the program starts
Seeds == {7, 19}

\* The program is started again over the files a finished run has left: a
\* new counter from the clock (line 71), a new dictionary (line 306).
Rerun ==
  /\ pc = "metadata_done"
  /\ run = 1
  /\ run' = 2
  /\ \E s \in Seeds : s >= seed /\ seed' = s /\ currentId' = s
  /\ title2id' = <<>>
  /\ assigned' = <<>>
  /\ idx' = 1
  /\ pc' = "metadata_init"
  /\ prev' = files
  /\ log' = <<>>
  /\ UNCHANGED <<data, new_data, files, ctime, args, csv, raised, count, orig>>

---------------------------------------------------------------------------
(* The documents metadata_init is run over.                                *)

\* a header line "key: value", or "key:" for a null value
Line(key, value) ==
  key \o <<":">> \o (IF value = <<>> THEN <<>> ELSE <<" ">> \o value) \o NL

IdLines == {<<>>, Line(IdKey, <<"5">>), Line(IdKey, <<>>)}
TitleLines == {<<>>, Line(TitleKey, <<"A">>), Line(TitleKey, <<>>)}
Openings == {Dashes \o NL, Dashes \o <<" ">> \o NL}
Body == <<"x", "\n">>

\* no header, or a header with or without id and title, each possibly null,
\* whose opening line may carry a trailing blank
Documents ==
  {Body} \cup {o \o i \o t \o Dashes \o NL \o Body :
                 o \in Openings, i \in IdLines, t \in TitleLines}

CreationTimes == {3, 4}

\* the defaults of the options (lines 47-50); semanticsection: <<>> is None
NoArgs == [creationdate |-> FALSE, zettlr |-> FALSE, typedlinks |-> FALSE,
           semanticsection |-> <<>>]

InitAssign ==
  /\ \E n \in 1..MaxFiles : files \in [1..n -> Documents]
  /\ \E c \in BOOLEAN :
       /\ args = [NoArgs EXCEPT !.creationdate = c]
       /\ IF c THEN /\ ctime \in [1..Len(files) -> CreationTimes]
                    /\ seed = Min(Seeds)
          ELSE /\ ctime = [i \in 1..Len(files) |-> Min(CreationTimes)]
               /\ seed \in Seeds
  /\ currentId = seed
  /\ title2id = <<>>
  /\ csv = <<>>
  /\ pc = "metadata_init"
  /\ idx = 1
  /\ raised = FALSE
  /\ count = 0
  /\ assigned = <<>>
  /\ run = 1
  /\ orig = files
  /\ prev = files
  /\ data = EmptyDict
  /\ new_data = EmptyDict
  /\ log = <<>>

NextAssign == MetadataInitFile \/ MetadataInitReturn \/ Rerun

SpecAssign == InitAssign /\ [][NextAssign]_vars

---------------------------------------------------------------------------
(* replace_wiki_links, lines 366-420.                                      *)

Open == <<"[", "[">>
Close == <<"]", "]">>

\* What replace_wiki_link returns for a title of the dictionary: [[id|label]],
\* or [label]([[id]]) under --zettlr (lines 389-394 and 401-406).
LinkSwapped(id, label) ==
  IF args.zettlr
  THEN <<"[">> \o Format(id) \o <<"]", "(">> \o Open \o label \o Close \o <<")">>
  ELSE Open \o label \o <<"|">> \o Format(id) \o Close

Link(id, label) ==
  IF args.zettlr
  THEN <<"[">> \o label \o <<"]", "(">> \o Open \o Format(id) \o Close \o <<")">>
  ELSE Open \o Format(id) \o <<"|">> \o label \o Close

\* link_title in title2id, and title2id[link_title]: the link's title is a str
IsKey(d, text) == KeyIndex(d, Str(text)) # 0
GetItem(d, text) == d[KeyIndex(d, Str(text))].id

\* replace_wiki_link(match), lines 376-406, on group 1 of the match: the text
\* it returns, or the ValueError of the unpacking of line 384 when the link
\* text splits into more than two parts.
replace_wiki_link(link_text) ==
  IF CountPipes(link_text) > 0
  THEN IF CountPipes(link_text) # 1
       THEN [raised |-> TRUE, text |-> <<>>]
       ELSE LET bar        == Find(link_text, <<"|">>, 1)
                link_title == Upto(link_text, bar - 1)
                link_alias == From(link_text, bar + 1)
            IN  IF ~IsKey(title2id, link_title)
                THEN [raised |-> FALSE, text |-> Open \o link_text \o Close]
                ELSE [raised |-> FALSE,
                      text   |-> Link(GetItem(title2id, link_title), Strip(link_alias))]
  ELSE IF ~IsKey(title2id, link_text)
       THEN [raised |-> FALSE, text |-> Open \o link_text \o Close]
       ELSE [raised |-> FALSE, text |-> Link(GetItem(title2id, link_text), link_text)]

\* A match of r"(?<!!)\[\[(.+?)\]\](?!\()" that starts at i: the position of
\* its closing "]]", 0 when there is none.  The lazy group takes the fewest
\* characters, none a line break, up to a "]]" that no "(" follows.
LinkEnd(s, i) ==
  IF ~(At(s, i, Open) /\ (i = 1 \/ s[i - 1] # "!")) THEN 0
  ELSE LET J == {j \in (i + 3)..Len(s) :
                   /\ At(s, j, Close)
                   /\ NoNewline(SubSeq(s, i + 2, j - 1))
                   /\ ~At(s, j + 2, <<"(">>)}
       IN  IF J = {} THEN 0 ELSE Min(J)

\* re.sub of line 408 from position i on: the text with every match replaced,
\* the number of matches, and whether replace_wiki_link has raised.
RECURSIVE SubLinks(_, _)
SubLinks(s, i) ==
  IF i > Len(s) THEN [raised |-> FALSE, text |-> <<>>, count |-> 0]
  ELSE LET j == LinkEnd(s, i)
       IN  IF j = 0
           THEN LET rest == SubLinks(s, i + 1)
                IN  [rest EXCEPT !.text = <<s[i]>> \o @]
           ELSE LET r    == replace_wiki_link(SubSeq(s, i + 2, j - 1))
                    rest == SubLinks(s, j + 2)
                IN  [raised |-> r.raised \/ rest.raised,
                     text   |-> r.text \o rest.text,
                     count  |-> 1 + rest.count]

Jpg == <<".", "j", "p", "g">>
Jpeg == <<".", "j", "p", "e", "g">>
Png == <<".", "p", "n", "g">>

\* The lengths the lazy ".+?" can take before the extension ext and "]]", for
\* a match of the pattern of line 410 that starts at i.
NameLengths(s, i, ext) ==
  {k \in 1..Len(s) :
     /\ At(s, i + 3 + k, ext \o Close)
     /\ NoNewline(SubSeq(s, i + 3, i + 2 + k))}

\* A match of r'!\[\[(.+?\.jpe?g|.+?\.png)\]\]' that starts at i: the position
\* of its closing "]]", 0 when there is none.  The first alternative is tried
\* with every length before the second one is.
ImageEnd(s, i) ==
  IF ~At(s, i, <<"!">> \o Open) THEN 0
  ELSE LET K1 == NameLengths(s, i, Jpg) \cup NameLengths(s, i, Jpeg)
           K2 == NameLengths(s, i, Png)
       IN  IF K1 # {}
           THEN IF Min(K1) \in NameLengths(s, i, Jpeg)
                THEN i + 3 + Min(K1) + Len(Jpeg)
                ELSE i + 3 + Min(K1) + Len(Jpg)
           ELSE IF K2 # {} THEN i + 3 + Min(K2) + Len(Png)
           ELSE 0

\* re.finditer of line 411 from position i on: group 0 and group 1 of every
\* match, in order
RECURSIVE FindImages(_, _)
FindImages(s, i) ==
  IF i > Len(s) THEN <<>>
  ELSE LET j == ImageEnd(s, i)
       IN  IF j = 0 THEN FindImages(s, i + 1)
           ELSE <<[whole |-> SubSeq(s, i, j + 1), name |-> SubSeq(s, i + 3, j - 1)]>>
                \o FindImages(s, j + 2)

\* The loop of lines 413-416: every occurrence of each match becomes ![](name).
RECURSIVE ReplaceImages(_, _)
ReplaceImages(content, matches) ==
  IF matches = <<>> THEN content
  ELSE ReplaceImages(
         ReplaceAll(content, Head(matches).whole,
                    <<"!", "[", "]", "(">> \o Head(matches).name \o <<")">>),
         Tail(matches))

\* replace_wiki_links(file, title2id) on the text of the file: the text it
\* writes and the final count, or raised with nothing written.
replace_wiki_links(content) ==
  LET linked == SubLinks(content, 1)
      images == FindImages(linked.text, 1)
  IN  IF linked.raised THEN [raised |-> TRUE, text |-> content, count |-> linked.count]
      ELSE [raised |-> FALSE,
            text   |-> ReplaceImages(linked.text, images),
            count  |-> linked.count + Len(images)]

\* Lines 486-491: where main goes after the last step on file idx.
NextFile ==
  /\ idx' = idx + 1
  /\ pc' = IF idx < Len(files) THEN "replace_wiki_links" ELSE "links_done"

\* Line 488: replace_wiki_links(file, title2id) on file idx.  The exception
\* of line 384 leaves the file as it was and ends the program.
ReplaceWikiLinks ==
  /\ pc = "replace_wiki_links"
  /\ idx <= Len(files)
  /\ LET r == replace_wiki_links(files[idx])
     IN  /\ count' = r.count
         /\ raised' = r.raised
         /\ files' = [files EXCEPT ![idx] = r.text]
         /\ log' = Append(log, Called("replace_wiki_links", idx, ~r.raised))
         /\ IF r.raised THEN pc' = "crashed" /\ idx' = idx
            ELSE IF args.typedlinks THEN pc' = "transform_typed_links" /\ idx' = idx
            ELSE NextFile
  /\ UNCHANGED <<data, new_data, ctime, args, currentId, title2id, csv, seed, assigned, run, orig, prev>>

\* The rewriting is run a second time over the files the first run has
\* written, with the same dictionary.
RewriteAgain ==
  /\ pc = "links_done"
  /\ run = 1
  /\ run' = 2
  /\ prev' = files
  /\ idx' = 1
  /\ pc' = "replace_wiki_links"
  /\ log' = <<>>
  /\ UNCHANGED <<data, new_data, files, ctime, args, currentId, title2id, csv, raised, count,
                 seed, assigned, orig>>

---------------------------------------------------------------------------
(* The bodies and dictionaries replace_wiki_links is run over.             *)

\* The text between the brackets of a reference: a title of the dictionary,
\* a title that is none, aliases with and without blanks, two separators,
\* image names, and a reference inside an image embed.
Inners ==
  { <<"A">>, <<"B", " ">>, <<"A", "|", " ", "c", " ">>, <<"B", "|", "c">>,
    <<"B", " ", "|", "a", "|", "b">>,
    <<"p">> \o Png, <<"p", ".", "P", "N", "G">>,
    Open \o <<"A">> \o Close \o Png }

\* [[inner]], possibly after a "!" and possibly before a "("
Reference(bang, inner, paren) ==
  (IF bang THEN <<"!">> ELSE <<>>) \o Open \o inner \o Close
    \o (IF paren THEN <<"(">> ELSE <<>>)

Segments ==
  { <<"t", "\n">> } \cup
  { Reference(b, t, q) : b \in BOOLEAN, t \in Inners, q \in BOOLEAN }

\* the texts made of at most n segments
RECURSIVE Texts(_)
Texts(n) ==
  IF n = 0 THEN { <<>> }
  ELSE Texts(n - 1) \cup { t \o g : t \in Texts(n - 1), g \in Segments }

\* Dictionaries metadata_init can return: empty, a counter id, and ids given
\* in the headers one of which is also a title.
Dictionaries ==
  { <<>>,
    << [title |-> Str(<<"A">>), id |-> Int(7)] >>,
    << [title |-> Str(<<"A">>), id |-> Str(<<"B">>)],
       [title |-> Str(<<"B">>), id |-> Int(7)] >> }

InitRewrite ==
  /\ files \in [1..1 -> Texts(MaxSegs)]
  /\ title2id \in Dictionaries
  /\ \E z \in BOOLEAN : args = [NoArgs EXCEPT !.zettlr = z]
  /\ ctime = <<Min(CreationTimes)>>
  /\ seed = Min(Seeds)
  /\ currentId = seed
  /\ csv = title2id
  /\ pc = "replace_wiki_links"
  /\ idx = 1
  /\ raised = FALSE
  /\ count = 0
  /\ assigned = <<>>
  /\ run = 1
  /\ orig = files
  /\ prev = files
  /\ data = EmptyDict
  /\ new_data = EmptyDict
  /\ log = <<>>

NextRewrite == ReplaceWikiLinks \/ RewriteAgain

SpecRewrite == InitRewrite /\ [][NextRewrite]_vars

---------------------------------------------------------------------------
(* transform_typed_links, lines 422-447.                                   *)

\* A match of r"- (.*?) \[\[(.*?)\]\]" that starts at i.  PrefixLengths are
\* the lengths the first lazy group can take: a " [[" follows it and a "]]"
\* follows on the same line.  The match has the shortest of them, and then
\* the nearest "]]".
DestinationEnd(s, from) ==
  LET J == {j \in from..Len(s) :
              At(s, j, Close) /\ NoNewline(SubSeq(s, from, j - 1))}
  IN  IF J = {} THEN 0 ELSE Min(J)

PrefixLengths(s, i) ==
  {a \in 0..Len(s) :
     /\ At(s, i + 2 + a, <<" ">> \o Open)
     /\ NoNewline(SubSeq(s, i + 2, i + 1 + a))
     /\ DestinationEnd(s, i + 5 + a) # 0}

TypedLinkAt(s, i) == At(s, i, <<"-", " ">>) /\ PrefixLengths(s, i) # {}

\* re.sub(r"- (.*?) \[\[(.*?)\]\]", r"[[\1:\2]]", s) of lines 438 and 444,
\* from position i on
RECURSIVE SubTypedLinks(_, _)
SubTypedLinks(s, i) ==
  IF i > Len(s) THEN <<>>
  ELSE IF ~TypedLinkAt(s, i) THEN <<s[i]>> \o SubTypedLinks(s, i + 1)
  ELSE LET a == Min(PrefixLengths(s, i))
           j == DestinationEnd(s, i + 5 + a)
       IN  Open \o SubSeq(s, i + 2, i + 1 + a) \o <<":">>
             \o SubSeq(s, i + 5 + a, j - 1) \o Close
             \o SubTypedLinks(s, j + 2)

\* the lookahead (?=\n##?\s|$) holds after position e: a line "# " or "## "
\* follows, or the text ends there, or only its last line break follows
SectionEndsAfter(s, e) ==
  \/ /\ At(s, e + 1, <<"\n", "#">>)
     /\ \/ e + 3 <= Len(s) /\ IsSpace(s[e + 3])
        \/ At(s, e + 3, <<"#">>) /\ e + 4 <= Len(s) /\ IsSpace(s[e + 4])
  \/ e = Len(s)
  \/ e = Len(s) - 1 /\ s[Len(s)] = "\n"

\* A match of r"(?:^|\n)%s[^\n]*\n(.*?)(?=\n##?\s|$)" % heading (DOTALL) that
\* starts at i: the heading is at the start of the text or after a line
\* break, its line ends with a line break.  heading: where the heading
\* starts, newline: the end of its line.
SectionAt(s, i, heading) ==
  LET h == IF i = 1 /\ At(s, 1, heading) THEN 1 ELSE i + 1
  IN  /\ i <= Len(s)
      /\ (i = 1 /\ At(s, 1, heading)) \/ (s[i] = "\n" /\ At(s, i + 1, heading))
      /\ Find(s, NL, h + Len(heading)) # 0

\* re.search of line 432: the leftmost match; the lazy group 1 ends at the
\* first place the lookahead holds.  first..last is group 0, newline + 1..last
\* is group 1.
SectionSearch(s, heading) ==
  LET I == {i \in 1..Len(s) : SectionAt(s, i, heading)}
  IN  IF I = {} THEN [found |-> FALSE, first |-> 0, newline |-> 0, last |-> 0]
      ELSE LET i  == Min(I)
               h  == IF i = 1 /\ At(s, 1, heading) THEN 1 ELSE i + 1
               nl == Find(s, NL, h + Len(heading))
               e  == Min({e \in nl..Len(s) : SectionEndsAfter(s, e)})
           IN  [found |-> TRUE, first |-> i, newline |-> nl, last |-> e]

\* transform_typed_links(file) on the text of the file: the text it writes
transform_typed_links(content) ==
  IF args.semanticsection # <<>>
  THEN LET m == SectionSearch(content, args.semanticsection)
       IN  IF ~m.found THEN content
           ELSE LET section    == SubTypedLinks(SubSeq(content, m.newline + 1, m.last), 1)
                    new_string == args.semanticsection \o NL \o section \o NL
                IN  ReplaceAll(content, SubSeq(content, m.first, m.last), new_string)
  ELSE SubTypedLinks(content, 1)

\* Line 491: transform_typed_links(file) on file idx.
TransformTypedLinks ==
  /\ pc = "transform_typed_links"
  /\ idx <= Len(files)
  /\ files' = [files EXCEPT ![idx] = transform_typed_links(files[idx])]
  /\ log' = Append(log, Called("transform_typed_links", idx, TRUE))
  /\ NextFile
  /\ UNCHANGED <<data, new_data, ctime, args, currentId, title2id, csv, raised, count,
                 seed, assigned, run, orig, prev>>

---------------------------------------------------------------------------
(* The texts transform_typed_links is run over.                            *)

\* the number of lines of such a text
MaxLines == 3

\* --semanticsection "## T"
Heading == <<"#", "#", " ", "T">>

\* The lines: plain text, the heading alone and with more text on its line,
\* a typed link, a heading of the same level and one of a lower level.
TypedLines ==
  { <<"i">>,
    Heading,
    Heading \o <<" ", "x">>,
    <<"-", " ", "c", " ">> \o Open \o <<"F">> \o Close,
    <<"#", "#", " ", "N">>,
    <<"#", "#", "#", " ", "S">> }

\* the texts of 1..n lines, each but the last ended by a line break
RECURSIVE LinesTexts(_)
LinesTexts(n) ==
  IF n = 1 THEN TypedLines
  ELSE LinesTexts(n - 1) \cup { l \o NL \o t : l \in TypedLines, t \in LinesTexts(n - 1) }

InitTyped ==
  /\ \E t \in LinesTexts(MaxLines), end \in {<<>>, NL} : files = <<t \o end>>
  /\ \E h \in {<<>>, Heading} :
       args = [NoArgs EXCEPT !.typedlinks = TRUE, !.semanticsection = h]
  /\ title2id = <<>>
  /\ ctime = <<Min(CreationTimes)>>
  /\ seed = Min(Seeds)
  /\ currentId = seed
  /\ csv = title2id
  /\ pc = "transform_typed_links"
  /\ idx = 1
  /\ raised = FALSE
  /\ count = 0
  /\ assigned = <<>>
  /\ run = 1
  /\ orig = files
  /\ prev = files
  /\ data = EmptyDict
  /\ new_data = EmptyDict
  /\ log = <<>>

NextTyped == TransformTypedLinks

SpecTyped == InitTyped /\ [][NextTyped]_vars

---------------------------------------------------------------------------
(* The header normalizer of reformat_yaml_front_matter_in_file, lines      *)
(* 173-181, on a decoded header.                                           *)

\* Lines 178-181: new_data is built from the header data.
ReformatYamlFrontMatter ==
  /\ pc = "reformat"
  /\ new_data' = NormalizeItems(data, 1, EmptyDict)
  /\ pc' = "reformatted"
  /\ UNCHANGED <<data, log, files, ctime, args, currentId, title2id, csv, idx, raised,
                 count, seed, assigned, run, orig, prev>>

\* The normalizer is run a second time, on the header the first run has built.
ReformatAgain ==
  /\ pc = "reformatted"
  /\ run = 1
  /\ run' = 2
  /\ data' = new_data
  /\ new_data' = EmptyDict
  /\ pc' = "reformat"
  /\ UNCHANGED <<log, files, ctime, args, currentId, title2id, csv, idx, raised,
                 count, seed, assigned, orig, prev>>

\* the number of keys of a header
MaxKeys == 2

\* The keys of a header: differing in case, in blanks around and inside, with
\* an underscore where another has a blank, and an integer key.
HeaderKeys ==
  { PyStr(<<"a", "_", "b">>), PyStr(<<" ", "A", " ", "b", "\t">>),
    PyStr(<<"a", " ", "b", " ", "c">>), PyStr(<<"1">>), PyInt(1) }

\* a nested mapping whose keys collide after normalization
Nested ==
  PyDict(<<PyStr(<<"B", " ", "c">>), PyStr(<<"b", "_", "c">>)>>,
         <<PyStr(<<"x">>), PyNone>>)

\* The values of a header: null, blank and non-blank strings, an integer, a
\* list with a null, a string and a mapping, and a nested mapping.
HeaderValues ==
  { PyNone, PyStr(<<" ">>), PyStr(<<" ", "x", " ", "y", "\n">>), PyInt(3),
    PyList(<<PyNone, PyStr(<<"x", " ">>), Nested>>), Nested }

\* the dicts of at most n keys, no key twice
RECURSIVE Headers(_)
Headers(n) ==
  IF n = 0 THEN { EmptyDict }
  ELSE Headers(n - 1) \cup
       { PyDict(Append(h.keys, k), Append(h.items, v)) :
           h \in {g \in Headers(n - 1) : Len(g.keys) = n - 1},
           k \in HeaderKeys, v \in HeaderValues }

\* a dict has every key once
DistinctKeys(h) == \A i, j \in 1..Len(h.keys) : h.keys[i] = h.keys[j] => i = j

InitNormalize ==
  /\ data \in {h \in Headers(MaxKeys) : DistinctKeys(h)}
  /\ new_data = EmptyDict
  /\ log = <<>>
  /\ files = <<>>
  /\ args = NoArgs
  /\ title2id = <<>>
  /\ ctime = <<>>
  /\ seed = Min(Seeds)
  /\ currentId = seed
  /\ csv = <<>>
  /\ pc = "reformat"
  /\ idx = 1
  /\ raised = FALSE
  /\ count = 0
  /\ assigned = <<>>
  /\ run = 1
  /\ orig = files
  /\ prev = files

NextNormalize == ReformatYamlFrontMatter \/ ReformatAgain

SpecNormalize == InitNormalize /\ [][NextNormalize]_vars

---------------------------------------------------------------------------
(* main, lines 458-495, without --reformatproperties and --folder2type.    *)

\* Lines 482-486: metadata_init has returned the dictionary, the loop over
\* the files begins.
MainLinks ==
  /\ pc = "metadata_done"
  /\ idx' = 1
  /\ pc' = IF Len(files) >= 1 THEN "replace_wiki_links" ELSE "links_done"
  /\ UNCHANGED <<data, new_data, log, files, ctime, args, currentId, title2id, csv,
                 raised, count, seed, assigned, run, orig, prev>>

\* Lines 494-495: rename_file on every file.  The stems of the model have no
\* accent and no blank: every file keeps its name, and its text.
RenameFiles ==
  /\ pc = "links_done"
  /\ pc' = "done"
  /\ UNCHANGED <<data, new_data, log, files, ctime, args, currentId, title2id, csv,
                 idx, raised, count, seed, assigned, run, orig, prev>>

\* The documents of a run of main: without a header, with an id and a title
\* and a typed link, with a reference that has two separators, and with a
\* title and a typed link under the heading.
MainDocuments ==
  { Body,
    Dashes \o NL \o Line(IdKey, <<"5">>) \o Line(TitleKey, <<"A">>) \o Dashes \o NL
      \o <<"-", " ", "c", " ">> \o Open \o <<"A">> \o Close \o NL,
    Open \o <<"A", "|", "a", "|", "b">> \o Close \o NL,
    Dashes \o NL \o Line(TitleKey, <<"B">>) \o Dashes \o NL
      \o Heading \o NL \o <<"-", " ", "c", " ">> \o Open \o <<"A">> \o Close \o NL }

Init ==
  /\ \E n \in 1..MaxFiles : files \in [1..n -> MainDocuments]
  /\ \E c, z, t \in BOOLEAN, h \in {<<>>, Heading} :
       args = [creationdate |-> c, zettlr |-> z, typedlinks |-> t,
               semanticsection |-> h]
  /\ ctime = [i \in 1..Len(files) |-> Min(CreationTimes)]
  /\ seed = Min(Seeds)
  /\ currentId = seed
  /\ title2id = <<>>
  /\ csv = <<>>
  /\ pc = "metadata_init"
  /\ idx = 1
  /\ raised = FALSE
  /\ count = 0
  /\ assigned = <<>>
  /\ run = 1
  /\ orig = files
  /\ prev = files
  /\ data = EmptyDict
  /\ new_data = EmptyDict
  /\ log = <<>>

Next ==
  \/ MetadataInitFile
  \/ MetadataInitReturn
  \/ MainLinks
  \/ ReplaceWikiLinks
  \/ TransformTypedLinks
  \/ RenameFiles

Spec == Init /\ [][Next]_vars

---------------------------------------------------------------------------
(* Claims about metadata_init, checked under SpecAssign.                   *)

\* the id and the title a stored text decodes to
HeaderId(content) == DictGet(parse_yaml_front_matter(content).data, IdKey)
HeaderTitle(content) == DictGet(parse_yaml_front_matter(content).data, TitleKey)

\* the files as they were when the running (or finished) run started
AtRunStart == IF run = 1 THEN orig ELSE prev

\* C1: every document metadata_init has processed decodes to a header with
\* an id and a title, whatever shape the document had.
C1_ProcessedHaveIdAndTitle ==
  pc \in {"metadata_init", "metadata_done"} =>
    \A i \in 1..(idx - 1) :
      HeaderId(files[i]) # None /\ HeaderTitle(files[i]) # None

\* the last processed document whose stored title reads as the key
LastWithTitle(key) ==
  Max({i \in 1..Len(files) :
         HeaderTitle(files[i]) # None /\ Format(HeaderTitle(files[i])) = Format(key)})

\* C5: the keys of the returned title2id are the final titles of the
\* documents, and each key maps to the id in the header of the last
\* document of that title (titles and ids compared as the text they print).
C5_MapIsFinalTitlesToLastId ==
  pc = "metadata_done" =>
    /\ \A i \in 1..Len(files) : HeaderTitle(files[i]) # None
    /\ {Format(title2id[k].title) : k \in 1..Len(title2id)}
         = {Format(HeaderTitle(files[i])) : i \in 1..Len(files)}
    /\ \A k \in 1..Len(title2id) :
         LET last == files[LastWithTitle(title2id[k].title)]
         IN  HeaderId(last) # None /\ Format(HeaderId(last)) = Format(title2id[k].id)

\* C6: with --creationdate off, the ids create_id has returned in a run are
\* integers above the run's seed, each larger than the ones before, and the
\* counter has moved by one per id returned and by nothing else.
C6_CounterIdsIncrease ==
  ~args.creationdate =>
    /\ currentId = seed + Len(assigned)
    /\ \A k \in 1..Len(assigned) :
         /\ assigned[k].kind = "int"
         /\ assigned[k].n > seed
         /\ \A j \in 1..(k - 1) : assigned[j].n < assigned[k].n

\* two documents have been given a counter id in one run
C6_Witness == ~args.creationdate /\ Len(assigned) >= 2

\* C7: a second run over processed documents leaves every stored text as it
\* was, and no run changes an id or a title a header had when it started.
C7_RerunChangesNothing ==
  pc = "metadata_done" =>
    /\ run = 2 => files = prev
    /\ \A i \in 1..Len(files) :
         /\ HeaderId(AtRunStart[i]) # None
              => HeaderId(files[i]) = HeaderId(AtRunStart[i])
         /\ HeaderTitle(AtRunStart[i]) # None
              => HeaderTitle(files[i]) = HeaderTitle(AtRunStart[i])

---------------------------------------------------------------------------
(* Claims about replace_wiki_links, checked under SpecRewrite.             *)

\* the first run of replace_wiki_links over the file has returned
Rewritten == pc = "links_done" /\ run = 1

\* No "[[" opens inside a reference that is still open: the body holds no
\* nested references, which section 4.4 of the specification leaves out of
\* scope.
Flat(s) ==
  \A i, j \in 1..Len(s) :
    (At(s, i, Open) /\ At(s, j, Open) /\ j >= i + 2)
      => \E k \in (i + 2)..(j - 2) : At(s, k, Close)

\* The references of a body as section 4.4 delimits them: a "[[" at i that no
\* "!" precedes, the text up to the first "]]" (not empty, on one line), and
\* no "(" after it.  RefText is that text.
RefClose(s, i) == Find(s, Close, i + 2)
RefText(s, i) == SubSeq(s, i + 2, RefClose(s, i) - 1)
IsReference(s, i) ==
  /\ At(s, i, Open)
  /\ i = 1 \/ s[i - 1] # "!"
  /\ RefClose(s, i) > i + 2
  /\ NoNewline(RefText(s, i))
  /\ ~At(s, RefClose(s, i) + 2, <<"(">>)

\* the title of a reference text: all of it, or what is before the first "|"
RefTitle(t) == IF Find(t, <<"|">>, 1) = 0 THEN t ELSE Upto(t, Find(t, <<"|">>, 1) - 1)
RefAlias(t) == From(t, Find(t, <<"|">>, 1) + 1)

\* [[id|label]], or [label]([[id]]) under the alternate convention
Rewritten4_4(id, label) ==
  IF args.zettlr
  THEN <<"[">> \o label \o <<"]", "(">> \o Open \o Format(id) \o Close \o <<")">>
  ELSE Open \o Format(id) \o <<"|">> \o label \o Close

\* C2: every plain reference [[Title]] and every aliased reference
\* [[Title|Alias]] of the body whose Title is a key of the dictionary is
\* found in the output as [[Identifier|Title]] resp. [[Identifier|Alias]]
\* with the alias trimmed ([Title]([[Identifier]]), [Alias]([[Identifier]])
\* under --zettlr).  Stated for bodies without nested references and for
\* calls that return.
C2_KnownReferencesRewritten ==
  (Rewritten /\ Flat(orig[1])) =>
    \A i \in 1..Len(orig[1]) :
      (IsReference(orig[1], i) /\ IsKey(title2id, RefTitle(RefText(orig[1], i)))
         /\ CountPipes(RefText(orig[1], i)) <= 1)
        => LET t  == RefText(orig[1], i)
               id == GetItem(title2id, RefTitle(t))
           IN  Contains(files[1],
                        Rewritten4_4(id, IF CountPipes(t) = 0 THEN t
                                         ELSE Strip(RefAlias(t))))

\* C3: every plain or aliased reference of the body whose Title is no key of
\* the dictionary (a ghost reference) is found unchanged in the output.
\* Stated for bodies without nested references and for calls that return.
C3_GhostReferencesKept ==
  (Rewritten /\ Flat(orig[1])) =>
    \A i \in 1..Len(orig[1]) :
      (IsReference(orig[1], i) /\ ~IsKey(title2id, RefTitle(RefText(orig[1], i)))
         /\ CountPipes(RefText(orig[1], i)) <= 1)
        => Contains(files[1], Open \o RefText(orig[1], i) \o Close)

\* no identifier of the dictionary, as the text it prints, is a title of it
NoIdIsTitle(d) == \A k \in 1..Len(d) : ~IsKey(d, Format(d[k].id))

\* the second run of replace_wiki_links over the file has returned
RewrittenTwice == pc = "links_done" /\ run = 2

C8_NeverRaises == ~raised /\ pc # "crashed"

\* the extensions of an image embed, in lower case
ImageExts == {Jpg, Jpeg, Png}

\* an image embed ![[name.ext]] starts at i: RefText is name.ext
IsImageEmbed(s, i) ==
  /\ At(s, i, <<"!">> \o Open)
  /\ RefClose(s, i + 1) > i + 3
  /\ NoNewline(RefText(s, i + 1))
  /\ \E e \in ImageExts :
       /\ Len(RefText(s, i + 1)) > Len(e)
       /\ At(RefText(s, i + 1), Len(RefText(s, i + 1)) - Len(e) + 1, e)

\* C10: every image embed ![[name.ext]] of the body, ext being jpg, jpeg or
\* png, is found in the output as ![](name.ext), whatever the dictionary is.
\* Stated for extensions in lower case only (the claim has them in any
\* case), for bodies without nested references and for calls that return.
C10_ImageEmbedsConverted ==
  (Rewritten /\ Flat(orig[1])) =>
    \A i \in 1..Len(orig[1]) :
      IsImageEmbed(orig[1], i)
        => Contains(files[1], <<"!", "[", "]", "(">> \o RefText(orig[1], i + 1) \o <<")">>)

---------------------------------------------------------------------------
(* Claims about transform_typed_links, checked under SpecTyped.            *)

\* C9: with a section heading configured and found, only the text between
\* the line of that heading and the next heading (or the end) is changed by
\* transform_typed_links: the output starts with the input up to the end of
\* the heading's line and ends with the input from the next heading on.
C9_OutsideSectionUnchanged ==
  LET m      == SectionSearch(orig[1], args.semanticsection)
      before == Upto(orig[1], m.newline)
      after  == From(orig[1], m.last + 1)
      out    == files[1]
  IN  (pc = "links_done" /\ args.semanticsection # <<>> /\ m.found) =>
        /\ Len(out) >= Len(before) + Len(after)
        /\ Upto(out, Len(before)) = before
        /\ From(out, Len(out) - Len(after) + 1) = after

---------------------------------------------------------------------------
(* Claims about the header normalizer, checked under SpecNormalize.        *)

\* the second run of the normalizer has ended: data is the header the first
\* run has built, new_data the header the second run has built from it
NormalizedTwice == pc = "reformatted" /\ run = 2

\* C11: the header normalizer is idempotent: for every header, with null,
\* string, list and nested-mapping values and with keys that collide after
\* normalization, normalizing the normalized header gives the same header
\* (the same keys in the same order with the same values) as normalizing once.
C11_NormalizerIdempotent == NormalizedTwice => new_data = data

\* A header with two keys has been normalized twice, and the first run had
\* changed a key with two blanks inside and a nested mapping.
C11_Witness ==
  /\ NormalizedTwice
  /\ Len(data.keys) = 2
  /\ PyStr(<<"a", "_", "b", "_", "c">>) \in {data.keys[k] : k \in 1..Len(data.keys)}
  /\ \E k \in 1..Len(data.items) :
       /\ data.items[k].kind = "dict"
       /\ Len(data.items[k].keys) = 1

---------------------------------------------------------------------------
(* Claims about main, checked under Spec.                                  *)

\* replace_wiki_links has been called on some document
RewriterStarted == \E k \in 1..Len(log) : log[k].op = "replace_wiki_links"

\* before the k-th call, metadata_init has handled every document
AssignedBefore(k) ==
  \A f \in 1..Len(files) :
    \E j \in 1..(k - 1) : log[j].op = "metadata_init" /\ log[j].file = f

\* before the k-th call, replace_wiki_links has written the document of that call
RewrittenBefore(k) ==
  \E j \in 1..(k - 1) : log[j] = Called("replace_wiki_links", log[k].file, TRUE)

\* no call of replace_wiki_links comes before the k-th call
NoRewriteBefore(k) == \A j \in 1..(k - 1) : log[j].op # "replace_wiki_links"

StagesOrdered ==
  /\ \A k \in 1..Len(log) :
       /\ log[k].op = "replace_wiki_links" => AssignedBefore(k)
       /\ log[k].op = "metadata_init" => NoRewriteBefore(k)
       /\ log[k].op = "transform_typed_links" => RewrittenBefore(k)
  /\ RewriterStarted => title2id = csv

\* C12: in every run of main, replace_wiki_links is called on a document
\* only after metadata_init has handled every document and has returned the
\* dictionary, which no step changes from then on; and transform_typed_links
\* is called on a document only after replace_wiki_links has returned from
\* that document and has written it.
C12_StagesOrdered ==
  /\ []StagesOrdered
  /\ [][RewriterStarted' => title2id' = title2id]_vars

\* A run over two documents has ended with the typed links of both recoded.
C12_Witness ==
  /\ pc = "done"
  /\ Len(files) = 2
  /\ \A f \in 1..2 :
       \E k \in 1..Len(log) : log[k] = Called("transform_typed_links", f, TRUE)

===========================================================================
